---- MODULE Spec2Model ----
(***************************************************************************)
(* Kaizen Energy (Tridens Monetization) integration.                       *)
(*                                                                         *)
(* The state machines of this module:                                      *)
(*   SpecAgg    - the statistics aggregation of sensor.py                  *)
(*                (async_calculate_statistic_data of both sensors), driven *)
(*                by a host that hands over batches of historical states   *)
(*                and imports the returned statistics;                     *)
(*   Spec       - the API client of api.py (TridensApiClient): token       *)
(*                handling, the authenticated request with its single      *)
(*                retry, the dependent lookups and fetch_consumption,      *)
(*                executed as coroutines that only yield at network        *)
(*                awaits;                                                  *)
(*   SpecQuery  - fetch_consumption with its arguments given or left out;  *)
(*   SpecShared - the two sensors updating on the one client they share;   *)
(*   SpecUpdate - async_update_historical of one sensor (sensor.py);       *)
(*   SpecFlow   - the setup flow of config_flow.py.                        *)
(***************************************************************************)
EXTENDS Integers, Sequences, FiniteSets, TLC

(***************************************************************************)
(* Bounds of the model.                                                    *)
(***************************************************************************)
\* longest sequence of historical states handed to one sensor
MaxLen == 2
\* calendar days are 1..MaxDay
MaxDay == 3
\* operations one caller starts on the client, one after the other
MaxCalls == 2
\* calls of fetch_consumption per caller when its arguments vary
MaxQueries == 1
\* updates per sensor when the two sensors run at the same time
MaxUpdates == 1

\* Python's None for the string-valued fields
None == "None"

(***************************************************************************)
(* Aggregation: values the inputs are drawn from.                          *)
(***************************************************************************)
Days == 1..MaxDay
\* hour of day of a reading (readings are published at 01:00; 13 stands for
\* any other time of the day); minutes and below are not represented
Hours == {1, 13}
\* per-reading values (consumption or cost); the code accepts any float
Values == {-1, 0, 1}
\* the "sum" of the latest stored statistic, when there is one
SeedSums == {0, 7}
Sensors == {"energy", "cost"}

HistoricalStates ==
    [dt : [day : Days, hour : Hours], state : Values]

\* dt values 1..3 of the documented adjacency example: day1=5, day2=3, day1=2
ExampleInput ==
    << [dt |-> [day |-> 1, hour |-> 1], state |-> 5],
       [dt |-> [day |-> 2, hour |-> 1], state |-> 3],
       [dt |-> [day |-> 1, hour |-> 1], state |-> 2] >>

SeqsUpTo(S, n) == UNION { [1..k -> S] : k \in 0..n }

\* the inputs of the aggregation: every short sequence, sorted or not, and
\* the documented example
Inputs == SeqsUpTo(HistoricalStates, MaxLen) \cup {ExampleInput}

\* latest: None is <<>>, a dict with a sum is a one-element sequence
Latests == {<<>>} \cup { <<[sum |-> s]>> : s \in SeedSums }

VARIABLES
    \* ---- aggregation ----
    sensor,          \* which sensor's method runs
    pending,         \* historical states the host has not handed over yet
    aggregated,      \* historical states of the batches already imported
    hist_states,     \* argument hist_states of the current call
    latest,          \* argument latest of the current call
    first_latest,    \* latest as it was before the first call
    statistic_data,  \* return value of the current call
    stored,          \* all statistics imported so far, in order
    aggPc,           \* "idle" | "calculated"
    \* ---- TridensApiClient (api.py:68-72) ----
    access_token,    \* self._access_token
    customer_code,   \* self._customer_code
    customer_id,     \* self._customer_id
    group_id,        \* self._group_id
    balance_group_id,\* self._balance_group_id
    \* ---- the coroutines running on the client ----
    stack,           \* per task: its call stack, the suspended frame last
    result,          \* per task: how its last operation ended
    ncalls,          \* per task: the operations started so far
    callers,         \* the tasks that start operations
    call,            \* per task: what its current operation has sent so far
    completed,       \* per task: the _api_request invocation that just ended
    last_auth,       \* per task: the async_get_token invocation that just ended
    \* ---- the sensors (sensor.py) ----
    historical_states, \* per sensor: self._attr_historical_states
    \* ---- the config flow (config_flow.py) ----
    flow             \* the step's session and client, the entries created

aggVars == << sensor, pending, aggregated, hist_states, latest, first_latest,
              statistic_data, stored, aggPc >>

(***************************************************************************)
(* sensor.py: async_calculate_statistic_data                               *)
(***************************************************************************)

\* hist_state.dt.replace(hour=0, minute=0, second=0, microsecond=0)
day_block_for_hist_state(hist_state) ==
    [hist_state.dt EXCEPT !.hour = 0]

\* sum(x.state for x in collection)
RECURSIVE SumStates(_)
SumStates(collection) ==
    IF collection = <<>> THEN 0
    ELSE Head(collection).state + SumStates(Tail(collection))

\* One step of itertools.groupby: the element joins the last group when its
\* key equals that group's key, and opens a new group otherwise.
GroupFull(groups, x) ==
    LET k == day_block_for_hist_state(x)
        hit == { i \in 1..Len(groups) : groups[i].key = k }
    IN IF hit # {}
       THEN LET i == CHOOSE j \in hit : TRUE
            IN [groups EXCEPT ![i].collection = Append(@, x)]
       ELSE Append(groups, [key |-> k, collection |-> <<x>>])

GroupStep(groups, x) ==
    LET k == day_block_for_hist_state(x)
        n == Len(groups)
    IN IF n > 0 /\ groups[n].key = k
       THEN [groups EXCEPT ![n].collection = Append(@, x)]
       ELSE Append(groups, [key |-> k, collection |-> <<x>>])

\* itertools.groupby(hist_states, key=day_block_for_hist_state)
RECURSIVE GroupByFrom(_, _)
GroupByFrom(rest, groups) ==
    IF rest = <<>> THEN groups
    ELSE GroupByFrom(Tail(rest), GroupStep(groups, Head(rest)))

\* (variant: the states are put in day order before they are grouped)
RECURSIVE SortByDay(_)
SortByDay(states) ==
    IF states = <<>> THEN <<>>
    ELSE LET rest == SortByDay(SubSeq(states, 1, Len(states) - 1))
             x == states[Len(states)]
             k == Cardinality({ i \in 1..Len(rest) : rest[i].dt.day <= x.dt.day })
         IN SubSeq(rest, 1, k) \o <<x>> \o SubSeq(rest, k + 1, Len(rest))

groupby_sorted(states) == GroupByFrom(SortByDay(states), <<>>)

groupby(states) == GroupByFrom(states, <<>>)

\* accumulated = latest["sum"] if latest else 0
SeedNoLatest(lat) == 0

Seed(lat) == IF lat # <<>> THEN lat[1].sum ELSE 0

\* the body of the for loop, one group: the entry appended and the new
\* accumulated
EntryNoCarry(group, accumulated) ==
    LET daily_total == SumStates(group.collection)
    IN [start |-> group.key, state |-> daily_total, sum |-> daily_total]

Entry(group, accumulated) ==
    LET daily_total == SumStates(group.collection)
    IN [start |-> group.key, state |-> daily_total,
        sum |-> accumulated + daily_total]

RECURSIVE Accumulate(_, _, _)
Accumulate(groups, accumulated, ret) ==
    IF groups = <<>> THEN ret
    ELSE LET e == Entry(Head(groups), accumulated)
         IN Accumulate(Tail(groups), e.sum, Append(ret, e))

\* a variant that emits the seed as an entry of its own when there is one
CalculateWithSeedEntry(states, lat) ==
    IF lat # <<>> /\ states = <<>>
    THEN << [start |-> [day |-> 0, hour |-> 0], state |-> 0, sum |-> Seed(lat)] >>
    ELSE Accumulate(groupby(states), Seed(lat), <<>>)

Calculate(states, lat) ==
    Accumulate(groupby(states), Seed(lat), <<>>)

\* KaizenEnergySensor.async_calculate_statistic_data
KaizenEnergySensor_async_calculate_statistic_data(states, lat) ==
    Calculate(states, lat)

\* KaizenEnergyCostSensor.async_calculate_statistic_data (the same text)
KaizenEnergyCostSensor_async_calculate_statistic_data(states, lat) ==
    Calculate(states, lat)

async_calculate_statistic_data(s, states, lat) ==
    IF s = "energy"
    THEN KaizenEnergySensor_async_calculate_statistic_data(states, lat)
    ELSE KaizenEnergyCostSensor_async_calculate_statistic_data(states, lat)

(***************************************************************************)
(* api.py: what the server can answer.                                     *)
(***************************************************************************)
\* the tasks that run coroutines: the two sensors' updates and the config
\* flow's step
Tasks == Sensors \cup {"flow"}

\* Access tokens the authentication endpoint may hand out, and what
\* jwt.decode(access_token, options={"verify_signature": False}) finds in
\* them: a payload with a customer_code, a payload without one, or no JWT.
Tokens == {"jwt1", "jwt2", "jwt_nocode", "opaque"}

Decodable(tok) == tok # "opaque"

\* token_json.get("customer_code")
CustomerCodeOf(tok) ==
    CASE tok = "jwt1" -> "cust1"
      [] tok = "jwt2" -> "cust1"
      [] OTHER -> None

Absent == "absent"

\* HTTP statuses the server answers with
Statuses == {200, 300, 401, 403, 500}

\* The body of the authentication response: its content type ("json",
\* "html" for anything aiohttp refuses to decode, "garbage" for JSON that
\* does not parse) and the two fields the client looks for.
NoAuthBody == [ctype |-> "json", access_token |-> Absent, token |-> Absent]

\* bodies with one of the fields, with both (holding different tokens) and
\* with neither
AuthBodies ==
    { [NoAuthBody EXCEPT !.access_token = tok] : tok \in Tokens }
    \cup { [NoAuthBody EXCEPT !.token = tok] : tok \in Tokens }
    \cup { [NoAuthBody EXCEPT !.access_token = "jwt1", !.token = "jwt2"],
           NoAuthBody,
           [NoAuthBody EXCEPT !.ctype = "html"],
           [NoAuthBody EXCEPT !.ctype = "garbage"] }

\* The body of an API response.  shape says which keys are there:
\*   customer profile:  "groups" (a = groups[0]["id"]), "no_groups",
\*                      "empty_groups", "group_no_id"
\*   subscriptions:     "subscription" (a = objects[0]["id"],
\*                      b = ...["balance_group"]["id"], either of which
\*                      may be the JSON null), "no_objects",
\*                      "no_subscriptions", "no_balance_group", "no_id"
\*                      (objects[0] has no "id")
\*   usage events:      "events" (events = objects), "no_events" (no
\*                      "objects" key), "bad_event" (an object lacking a key)
\*   anything else:     "error" (the body of an error answer), "data"
Body(ctype, shape, a, b, events) ==
    [ctype |-> ctype, shape |-> shape, a |-> a, b |-> b, events |-> events]

NoBody == Body("none", "none", None, None, <<>>)
ErrorBody == Body("json", "error", None, None, <<>>)
HtmlBody == Body("html", "none", None, None, <<>>)
GarbageBody == Body("garbage", "none", None, None, <<>>)

GroupIds == {"g1", "g2"}
CustomerIds == {"k1"}
BalanceGroupIds == {"b1"}

\* one usage event: fields.time_of_read (ms), quantity, amount_with_discount
UsageEvent(ms, quantity, amount) ==
    [time_of_read |-> ms, quantity |-> quantity, amount_with_discount |-> amount]

\* the answers to the usage query: no event, or two events (01:00:00.500 of
\* day 2 and 01:00 of day 3; newest last, whatever order was asked for)
EventLists ==
    { <<>>, << UsageEvent(90000500, 3, 1), UsageEvent(176400000, 2, 5) >> }

Kinds == {"customer", "subscription", "usage", "direct"}

JsonBodies(kind) ==
    CASE kind = "customer" ->
            { Body("json", "groups", g, None, <<>>) : g \in GroupIds }
            \cup { Body("json", sh, None, None, <<>>) :
                     sh \in {"no_groups", "empty_groups", "group_no_id"} }
      [] kind = "subscription" ->
            { Body("json", "subscription", k, b, <<>>) :
                     k \in CustomerIds \cup {None},
                     b \in BalanceGroupIds \cup {None} }
            \cup { Body("json", "no_id", None, b, <<>>) : b \in BalanceGroupIds }
            \cup { Body("json", sh, None, None, <<>>) :
                     sh \in {"no_objects", "no_subscriptions", "no_balance_group"} }
      [] kind = "usage" ->
            { Body("json", "events", None, None, ev) : ev \in EventLists }
            \cup { Body("json", sh, None, None, <<>>) :
                     sh \in {"no_events", "bad_event"} }
      [] OTHER ->
            { Body("json", "data", None, None, <<>>) }

\* What comes back from one HTTP exchange: aiohttp raises a ClientError
\* (connection refused, DNS, TLS, a socket timeout, ...), the session's
\* total timeout expires (asyncio.TimeoutError, not a ClientError), the
\* await is cancelled, or a response arrives.  The API answers 200 with a
\* body, an error status, or a 300 page that is not JSON.
Outcome(type, status, body) == [type |-> type, status |-> status, body |-> body]

AuthOutcomes ==
    { Outcome("client_error", 0, NoAuthBody), Outcome("timeout", 0, NoAuthBody),
      Outcome("cancelled", 0, NoAuthBody) }
    \cup { Outcome("http", st, NoAuthBody) : st \in { x \in Statuses : x >= 400 } }
    \cup { Outcome("http", st, b) :
             st \in { x \in Statuses : x < 400 }, b \in AuthBodies }

ApiOutcomes(kind) ==
    { Outcome("client_error", 0, NoBody), Outcome("timeout", 0, NoBody),
      Outcome("cancelled", 0, NoBody) }
    \cup { Outcome("http", st, ErrorBody) : st \in { x \in Statuses : x >= 400 } }
    \cup { Outcome("http", 200, b) :
             b \in JsonBodies(kind) \cup {HtmlBody, GarbageBody} }
    \cup { Outcome("http", 300, HtmlBody) }

\* A server that is up and answers every request in full: it hands out a
\* token with a customer code, and answers an API request with the complete
\* body or, when it no longer takes the token, with 401.
HealthyAuthOutcomes ==
    { Outcome("http", 200, [NoAuthBody EXCEPT !.access_token = tok]) :
        tok \in {"jwt1", "jwt2"} }

HealthyApiOutcomes(kind) ==
    { Outcome("http", 401, ErrorBody) }
    \cup { Outcome("http", 200, b) :
             b \in { j \in JsonBodies(kind) :
                       /\ j.shape \in {"groups", "subscription", "events", "data"}
                       /\ j.shape = "subscription" => (j.a # None /\ j.b # None) } }

(***************************************************************************)
(* api.py: the coroutines.                                                 *)
(*                                                                         *)
(* A coroutine runs without interruption from one network await to the     *)
(* next.  The operators below work on a configuration c: the client's      *)
(* fields (c.sess), the task's call stack (c.stack, the running frame      *)
(* last), and c.sig, which says why the running code stopped: "wait" (a    *)
(* request is in flight), "return" or "raise" (the callee's frame is       *)
(* already popped and the frame on top is its caller).                     *)
(***************************************************************************)
\* A frame: the coroutine, where it is suspended, and its locals.  Of
\* _api_request: the endpoint (kind), the identifier put in the URL (key),
\* the token in headers["Authorization"] (bearer).  For the record: the
\* token and customer code held on entry, the client's fields on entry
\* (entry), the POSTs counted on entry, and what the invocation has seen so
\* far (attempts answered, authenticate calls awaited).
\* datetimes handed to fetch_consumption, in milliseconds since the epoch;
\* None is <<>>, a datetime a one-element sequence
Starts == { <<>>, <<1500>> }
Ends == { <<>>, <<2500>> }

\* the window the sensors ask for (sensor.py:111-113): both bounds given
SensorWindow == [start |-> <<1500>>, end |-> <<2500>>]

\* the query parameters of a request; a key that is not there is <<>>
NoParams ==
    [service_type |-> <<>>, page |-> <<>>, count |-> <<>>, order_dir |-> <<>>,
     time_from |-> <<>>, time_to |-> <<>>]

\* the client's fields with nothing set (api.py:68-72)
NoSession ==
    [access_token |-> None, customer_code |-> None, customer_id |-> None,
     group_id |-> None, balance_group_id |-> None]

Frame(fn, pc) ==
    [fn |-> fn, pc |-> pc, kind |-> "none", key |-> None, bearer |-> None,
     entry_token |-> None, entry_code |-> None, entry |-> NoSession, auth0 |-> 0,
     attempts |-> <<>>, auths |-> <<>>,
     start |-> <<>>, end |-> <<>>, params |-> NoParams]

Sig(type, exc, data, records) ==
    [type |-> type, exc |-> exc, data |-> data, records |-> records]

WaitSig == Sig("wait", None, NoBody, <<>>)

\* what one operation has done so far: POSTs to the authentication endpoint
\* (auth) and how many of them ended with a token stored and decoded
\* (authok), requests sent, _api_request invocations made and returned per
\* endpoint and the shape of the body last returned (got), the records
\* fetch_consumption handed to a sensor (fetched), whether customer_id and
\* balance_group_id were both set when it started (resolved), whether no field of the client was set when it
\* started (fresh); prior: the invocations of the caller's earlier operations
NoCall ==
    [op |-> "none", auth |-> 0, authok |-> 0, sent |-> [k \in Kinds |-> 0],
     invoked |-> [k \in Kinds |-> 0], returned |-> [k \in Kinds |-> 0],
     got |-> [k \in Kinds |-> "none"],
     fetched |-> <<>>,
     resolved |-> FALSE, fresh |-> FALSE,
     prior |-> [k \in Kinds |-> 0]]

\* the record of an _api_request invocation that has just ended; kept: the
\* client's fields were at its end what they were at its entry
NoRequest ==
    [kind |-> "none", key |-> None, params |-> NoParams, entry_token |-> None,
     kept |-> TRUE,
     attempts |-> <<>>, auths |-> <<>>, sig |-> WaitSig]

Top(c) == c.stack[Len(c.stack)]
Push(c, f) == [c EXCEPT !.stack = Append(@, f)]
Pop(c) == [c EXCEPT !.stack = SubSeq(@, 1, Len(@) - 1)]
SetTop(c, f) == [c EXCEPT !.stack[Len(c.stack)] = f]
Wait(c) == [c EXCEPT !.sig = WaitSig]
\* the running frame returns / raises: it is popped
Return(c, data) == [Pop(c) EXCEPT !.sig = Sig("return", None, data, <<>>)]
ReturnRecords(c, records) ==
    [Pop(c) EXCEPT !.sig = Sig("return", None, NoBody, records)]
Raise(c, exc) == [Pop(c) EXCEPT !.sig = Sig("raise", exc, NoBody, <<>>)]

\* Exceptions.  The subclasses of aiohttp.ClientError the code can meet:
\* the transport's own, ClientResponseError (raise_for_status) and
\* ContentTypeError (response.json() on a non-JSON content type).
ClientErrors == {"ClientError", "ClientResponseError", "ContentTypeError"}

\* except aiohttp.ClientError as err: raise CannotConnect from err
\* (api.py:113-115 and 187-189); anything else passes through
ExceptNothing(exc) == exc

ExceptClientError(exc) ==
    IF exc \in ClientErrors THEN "CannotConnect" ELSE exc

\* response.raise_for_status(): aiohttp raises ClientResponseError when
\* the status is 400 or above
RaisesForStatus(status) == status >= 400

\* what reading a response raises before its JSON is in hand: the network
\* failure, the timeout, the cancellation, raise_for_status,
\* response.json(); None when the JSON body is there
ResponseError(o) ==
    IF o.type = "client_error" THEN "ClientError"
    ELSE IF o.type = "timeout" THEN "TimeoutError"
    ELSE IF o.type = "cancelled" THEN "CancelledError"
    ELSE IF RaisesForStatus(o.status) THEN "ClientResponseError"
    ELSE IF o.body.ctype = "html" THEN "ContentTypeError"
    ELSE IF o.body.ctype = "garbage" THEN "ValueError"
    ELSE None


\* one answered attempt of _api_request: the bearer token it carried and
\* what came back
Attempt(bearer, o) ==
    [bearer |-> bearer, type |-> o.type, status |-> o.status, body |-> o.body]

\* how an awaited async_get_token ended, for the caller's record
AuthResult(sig) == IF sig.type = "return" THEN "ok" ELSE sig.exc

\* ---- async_get_token (api.py:78-115) ----

\* api.py:78-92: the POST is sent; the coroutine waits for the answer
async_get_token_call(c) ==
    LET f == [Frame("async_get_token", "post") EXCEPT
                !.entry_token = c.sess.access_token,
                !.entry_code = c.sess.customer_code,
                !.auth0 = c.call.auth]
    IN Wait([Push(c, f) EXCEPT !.call.auth = @ + 1])

\* api.py:93: if response.status in (401, 403)
CredentialsRejected401Only(status) == status = 401

CredentialsRejected(status) == status \in {401, 403}

\* api.py:102-104 (106-108): the token is stored, then decoded, and the
\* customer code taken from its payload
StoreToken(c, tok) ==
    LET c1 == [c EXCEPT !.sess.access_token = tok]
    IN IF Decodable(tok)
       THEN Return([c1 EXCEPT !.sess.customer_code = CustomerCodeOf(tok)], NoBody)
       ELSE Raise(c1, ExceptClientError("DecodeError"))

\* api.py:101-111 with a body that parsed
TokenFromBody(c, body) ==
    IF body.access_token # Absent THEN StoreToken(c, body.access_token)
    ELSE IF body.token # Absent THEN StoreToken(c, body.token)
    ELSE Raise(c, ExceptClientError("CannotConnect"))

\* api.py:89-115: the answer to the POST arrives
HandleTokenResponse(c, o) ==
    IF o.type = "http" /\ CredentialsRejected(o.status)
    THEN Raise(c, ExceptClientError("InvalidAuth"))
    ELSE IF ResponseError(o) # None
    THEN Raise(c, ExceptClientError(ResponseError(o)))
    ELSE TokenFromBody(c, o.body)

\* the record of an async_get_token invocation that has just ended
NoAuth ==
    [type |-> "none", status |-> 0, body |-> NoAuthBody,
     token_before |-> None, code_before |-> None, posts |-> 0,
     sig |-> WaitSig]

async_get_token_response(c, o) ==
    LET f == Top(c)
        r == HandleTokenResponse(c, o)
    IN [r EXCEPT
          !.call.authok = IF r.sig.type = "return" THEN @ + 1 ELSE @,
          !.authDone =
          [type |-> o.type, status |-> o.status, body |-> o.body,
           token_before |-> f.entry_token, code_before |-> f.entry_code,
           posts |-> c.call.auth - f.auth0, sig |-> r.sig]]

\* ---- async_test_authentication (api.py:117-121) ----
async_test_authentication_call(c) ==
    async_get_token_call(Push(c, Frame("async_test_authentication", "token")))

\* (variant: a failed authentication is reported as False)
async_test_authentication_returns_false(c) ==
    IF c.sig.type = "raise" THEN Return(c, Body("none", "False", None, None, <<>>))
    ELSE Return(c, Body("none", "True", None, None, <<>>))

async_test_authentication_after_token(c) ==
    IF c.sig.type = "raise" THEN Pop(c)
    ELSE Return(c, Body("none", "True", None, None, <<>>))

\* ---- _api_request (api.py:156-189) ----

\* the frame of _api_request ends: what it did is kept in c.done
FinishRequest(c, sig) ==
    LET f == Top(c)
    IN [Pop(c) EXCEPT
          !.sig = sig,
          !.call.returned[f.kind] = IF sig.type = "return" THEN @ + 1 ELSE @,
          !.call.got[f.kind] = IF sig.type = "return" THEN sig.data.shape ELSE @,
          !.done = [kind |-> f.kind, key |-> f.key, params |-> f.params,
                    entry_token |-> f.entry_token,
                    kept |-> c.sess = f.entry,
                    attempts |-> f.attempts,
                    auths |-> f.auths, sig |-> sig]]

\* api.py:164-171 (176-178 for the retry): the Authorization header takes
\* the token the client holds now, and the request is sent.  A query
\* parameter that is None makes the URL builder raise TypeError before
\* anything is sent.  (Variant: the retry goes out with the header of the
\* first attempt.)
_api_request_send_stale(c, pc) ==
    LET f == Top(c)
    IN IF f.kind = "subscription" /\ f.key = None
       THEN FinishRequest(c, Sig("raise", ExceptClientError("TypeError"), NoBody, <<>>))
       ELSE Wait(SetTop([c EXCEPT !.call.sent[f.kind] = @ + 1],
                        [f EXCEPT !.pc = pc,
                                  !.bearer = IF pc = "retry" THEN f.bearer
                                             ELSE c.sess.access_token]))

_api_request_send(c, pc) ==
    LET f == Top(c)
    IN IF f.kind = "subscription" /\ f.key = None
       THEN FinishRequest(c, Sig("raise", ExceptClientError("TypeError"), NoBody, <<>>))
       ELSE Wait(SetTop([c EXCEPT !.call.sent[f.kind] = @ + 1],
                        [f EXCEPT !.pc = pc, !.bearer = c.sess.access_token]))

\* api.py:156-162
_api_request_call(c, kind, key, params) ==
    LET f == [Frame("_api_request", "auth") EXCEPT
                !.kind = kind, !.key = key, !.params = params,
                !.entry_token = c.sess.access_token, !.entry = c.sess]
        c1 == Push([c EXCEPT !.call.invoked[kind] = @ + 1], f)
    IN IF c.sess.access_token = None
       THEN async_get_token_call(c1)
       ELSE _api_request_send(c1, "request")

\* api.py:162 has returned or raised (outside the try)
_api_request_after_auth(c) ==
    LET f == Top(c)
        c1 == SetTop(c, [f EXCEPT !.auths = Append(@, AuthResult(c.sig))])
    IN IF c.sig.type = "raise"
       THEN FinishRequest(c1, c.sig)
       ELSE _api_request_send(c1, "request")

\* api.py:172: if response.status in (401, 403)
TokenRejectedNever(status) == FALSE

\* (variant: a server error is taken for a rejected token as well)
TokenRejectedOrServerError(status) == status \in {401, 403, 500}

TokenRejected(status) == status \in {401, 403}

\* api.py:171-175, 184-189: the answer to the first attempt arrives
_api_request_response(c, o) ==
    LET f == Top(c)
        c1 == SetTop(c, [f EXCEPT !.attempts = Append(@, Attempt(f.bearer, o)),
                                  !.pc = "reauth"])
    IN IF o.type = "http" /\ TokenRejected(o.status)
       THEN async_get_token_call(c1)
       ELSE IF ResponseError(o) # None
       THEN FinishRequest(c1, Sig("raise", ExceptClientError(ResponseError(o)),
                                  NoBody, <<>>))
       ELSE FinishRequest(c1, Sig("return", None, o.body, <<>>))

\* api.py:175-178: the re-authentication has returned or raised (inside
\* the try)
_api_request_after_reauth(c) ==
    LET f == Top(c)
        c1 == SetTop(c, [f EXCEPT !.auths = Append(@, AuthResult(c.sig))])
    IN IF c.sig.type = "raise"
       THEN FinishRequest(c1, Sig("raise", ExceptClientError(c.sig.exc),
                                  NoBody, <<>>))
       ELSE _api_request_send(c1, "retry")

\* api.py:178-182, 187-189: the answer to the retry arrives
\* (variants: the retry handled like a first attempt; a rejected retry
\* reported as InvalidAuth)
_api_request_retry_like_first(c, o) == _api_request_response(c, o)

_api_request_retry_invalid_auth(c, o) ==
    LET f == Top(c)
        c1 == SetTop(c, [f EXCEPT !.attempts = Append(@, Attempt(f.bearer, o))])
    IN IF o.type = "http" /\ TokenRejected(o.status)
       THEN FinishRequest(c1, Sig("raise", "InvalidAuth", NoBody, <<>>))
       ELSE IF ResponseError(o) # None
       THEN FinishRequest(c1, Sig("raise", ExceptClientError(ResponseError(o)),
                                  NoBody, <<>>))
       ELSE FinishRequest(c1, Sig("return", None, o.body, <<>>))

_api_request_retry_response(c, o) ==
    LET f == Top(c)
        c1 == SetTop(c, [f EXCEPT !.attempts = Append(@, Attempt(f.bearer, o))])
    IN IF ResponseError(o) # None
       THEN FinishRequest(c1, Sig("raise", ExceptClientError(ResponseError(o)),
                                  NoBody, <<>>))
       ELSE FinishRequest(c1, Sig("return", None, o.body, <<>>))

\* ---- _get_customer_data (api.py:127-138) ----

\* api.py:131-132
_get_customer_data_request(c) ==
    _api_request_call(SetTop(c, [Top(c) EXCEPT !.pc = "request"]),
                      "customer", c.sess.customer_code, NoParams)

\* api.py:127-130
_get_customer_data_call(c) ==
    LET c1 == Push(c, Frame("_get_customer_data", "auth"))
    IN IF c.sess.customer_code = None
       THEN async_get_token_call(c1)
       ELSE _get_customer_data_request(c1)

\* api.py:130 has returned or raised
_get_customer_data_after_auth(c) ==
    IF c.sig.type = "raise" THEN Pop(c) ELSE _get_customer_data_request(c)

\* api.py:132-138: groups = data.get("groups"); groups[0]["id"]; the bare
\* except swallows whatever the extraction raises.  (Variant: a failed
\* extraction is raised.)
_get_customer_data_after_request_fatal(c) ==
    IF c.sig.type = "raise" THEN Pop(c)
    ELSE IF c.sig.data.shape = "groups"
    THEN Return([c EXCEPT !.sess.group_id = c.sig.data.a], NoBody)
    ELSE Raise(c, "KeyError")

_get_customer_data_after_request(c) ==
    IF c.sig.type = "raise" THEN Pop(c)
    ELSE IF c.sig.data.shape = "groups"
    THEN Return([c EXCEPT !.sess.group_id = c.sig.data.a], NoBody)
    ELSE Return(c, NoBody)

\* ---- _get_subscription_data (api.py:140-154) ----

\* api.py:144-146
_get_subscription_data_request(c) ==
    _api_request_call(SetTop(c, [Top(c) EXCEPT !.pc = "request"]),
                      "subscription", c.sess.group_id, NoParams)

\* api.py:140-143
_get_subscription_data_call(c) ==
    LET c1 == Push(c, Frame("_get_subscription_data", "customer"))
    IN IF c.sess.group_id = None
       THEN _get_customer_data_call(c1)
       ELSE _get_subscription_data_request(c1)

\* api.py:143 has returned or raised
_get_subscription_data_after_customer(c) ==
    IF c.sig.type = "raise" THEN Pop(c) ELSE _get_subscription_data_request(c)

\* api.py:153: except ValueError; a missing key or an empty list raises
\* KeyError or IndexError, which it does not catch
ExceptValueError(exc) == exc = "ValueError"

\* api.py:146-154
_get_subscription_data_after_request(c) ==
    LET data == c.sig.data
    IN IF c.sig.type = "raise" THEN Pop(c)
       ELSE IF data.shape = "subscription"
       THEN Return([c EXCEPT !.sess.balance_group_id = data.b,
                             !.sess.customer_id = data.a], NoBody)
       ELSE IF data.shape = "no_id"
       THEN LET c1 == [c EXCEPT !.sess.balance_group_id = data.b]
            IN IF ExceptValueError("KeyError") THEN Return(c1, NoBody)
               ELSE Raise(c1, "KeyError")
       ELSE IF ExceptValueError("KeyError") THEN Return(c, NoBody)
       ELSE Raise(c, "KeyError")

\* ---- fetch_consumption (api.py:191-222) ----

\* A datetime: whole seconds and microseconds since the epoch, and what
\* its tzinfo is: "naive" (none; read as system local time), "system" (the
\* fixed offset astimezone() attaches) or "hass" (the configured zone).
Datetime(s, us, tz) == [s |-> s, us |-> us, tz |-> tz]

\* datetime.fromtimestamp(int(ms) / 1000): a true division, the
\* milliseconds are kept
FromTimestampMs(ms) == Datetime(ms \div 1000, (ms % 1000) * 1000, "naive")

\* api.py:213-219: one ConsumptionRecord per usage event.  (Variant: the
\* fetcher itself moves the reading to the day before.)
ConsumptionRecordShifted(item) ==
    [time_of_read |-> FromTimestampMs(item.time_of_read - 86400000),
     consumption |-> item.quantity,
     cost |-> item.amount_with_discount]

ConsumptionRecord(item) ==
    [time_of_read |-> FromTimestampMs(item.time_of_read),
     consumption |-> item.quantity,
     cost |-> item.amount_with_discount]

\* int(start.timestamp()) * 1000: the seconds are truncated
Millis(dt) == << (dt[1] \div 1000) * 1000 >>

\* api.py:200-209: time-from and time-to are there when start and end are
\* (a datetime is always true).  (Variant: both bounds are always sent.)
UsageParamsBothBounds(start, end) ==
    [service_type |-> <<"HEAT_METER_READ_SERVICE">>, page |-> <<1>>,
     count |-> <<100>>, order_dir |-> <<"desc">>,
     time_from |-> IF start # <<>> THEN Millis(start) ELSE <<0>>,
     time_to |-> IF end # <<>> THEN Millis(end) ELSE <<0>>]

UsageParams(start, end) ==
    [service_type |-> <<"HEAT_METER_READ_SERVICE">>, page |-> <<1>>,
     count |-> <<100>>, order_dir |-> <<"desc">>,
     time_from |-> IF start # <<>> THEN Millis(start) ELSE <<>>,
     time_to |-> IF end # <<>> THEN Millis(end) ELSE <<>>]

\* api.py:199-210
fetch_consumption_request(c) ==
    _api_request_call(SetTop(c, [Top(c) EXCEPT !.pc = "request"]),
                      "usage", c.sess.customer_id,
                      UsageParams(Top(c).start, Top(c).end))

\* api.py:191-198 (variant: the identifiers are looked up on every call)
fetch_consumption_call_uncached(c, start, end) ==
    _get_subscription_data_call(
        Push(c, [Frame("fetch_consumption", "resolve") EXCEPT
                   !.start = start, !.end = end]))

fetch_consumption_call(c, start, end) ==
    LET c1 == Push(c, [Frame("fetch_consumption", "resolve") EXCEPT
                         !.start = start, !.end = end])
    IN IF c.sess.customer_id = None \/ c.sess.balance_group_id = None
       THEN _get_subscription_data_call(c1)
       ELSE fetch_consumption_request(c1)

\* api.py:198 has returned or raised (variant: the query is made whatever
\* became of the lookups)
fetch_consumption_after_resolve_anyway(c) == fetch_consumption_request(c)

fetch_consumption_after_resolve(c) ==
    IF c.sig.type = "raise" THEN Pop(c) ELSE fetch_consumption_request(c)

\* api.py:210-222
fetch_consumption_after_request(c) ==
    LET data == c.sig.data
    IN IF c.sig.type = "raise" THEN Pop(c)
       ELSE IF data.shape = "events"
       THEN ReturnRecords(c, [i \in 1..Len(data.events) |->
                                 ConsumptionRecord(data.events[i])])
       ELSE IF data.shape = "no_events"
       THEN ReturnRecords(c, <<>>)
       ELSE Raise(c, "KeyError")

\* ---- async_update_historical (sensor.py:101-128, 241-268) ----

\* time_of_read.astimezone(): the naive value is read as system local time
\* and made aware; the instant is the same
Astimezone(dt) == [dt EXCEPT !.tz = "system"]

\* dt - timedelta(days=1) on an aware datetime of fixed offset: 86400 s
MinusOneDay(dt) == [dt EXCEPT !.s = @ - 86400]

\* dt_util.as_local(corrected_dt): the same instant in the configured zone
AsLocal(dt) == [dt EXCEPT !.tz = "hass"]

\* sensor.py:119 / 259: the energy sensor takes consumption, the cost
\* sensor cost
StateOf(sensorName, record) ==
    IF sensorName = "energy" THEN record.consumption ELSE record.cost

\* sensor.py:114-127 / 254-267, one record
HistoricalState(sensorName, record) ==
    [state |-> StateOf(sensorName, record),
     dt |-> AsLocal(MinusOneDay(Astimezone(record.time_of_read)))]

\* sensor.py:110-113 / 250-253: both sensors ask for a window with both
\* bounds given (15 and 30 days back to now)
async_update_historical_call(c) ==
    fetch_consumption_call(Push(c, Frame("async_update_historical", "fetch")),
                           SensorWindow.start, SensorWindow.end)

\* sensor.py:114-128 / 254-268: fetch_consumption has returned or raised
async_update_historical_after_fetch(c) ==
    IF c.sig.type = "raise" THEN Pop(c)
    ELSE LET records == c.sig.records
         IN Return([c EXCEPT
                      !.call.fetched = records,
                      !.hist = [i \in 1..Len(records) |->
                                   HistoricalState(c.sensor, records[i])]],
                   NoBody)

\* ---- the config flow (config_flow.py) ----

\* the user names a form may be submitted with
Usernames == {"alice", "bob"}

\* user_input: None is <<>>, a submitted form a one-element sequence
UserInputs ==
    {<<>>} \cup { << [username |-> u, password |-> "secret"] >> : u \in Usernames }

\* What the flow has at hand: the aiohttp.ClientSession of the current
\* step's validate_input ("none" before it is made, "open", "closed"), the
\* credentials its TridensApiClient was built with, the step's user_input,
\* the entries created so far and the unique ids they are registered under.
NoFlow ==
    [session |-> "none", hub |-> <<>>, input |-> <<>>, entries |-> <<>>,
     configured |-> {}]

\* a ConfigFlowResult: its type ("form", "create_entry"), the entry's title
\* and errors["base"] (None when errors is empty)
FlowResult(type, title, base) == Body("none", type, title, base, <<>>)

\* config_flow.py:90-92
async_show_form(c, base) == Return(c, FlowResult("form", None, base))

\* config_flow.py:36-44: a session is opened, a new client is built from
\* the submitted data, and its authentication is awaited
validate_input_call(c, data) ==
    async_test_authentication_call(
        Push([c EXCEPT !.flow.session = "open", !.flow.hub = <<data>>,
                       !.sess = NoSession],
             Frame("validate_input", "auth")))

\* config_flow.py:44-55: finally closes the session on every way out.
\* (Variant: the session is closed on the way out of a success only.)
validate_input_after_auth_leaky(c) ==
    IF c.sig.type = "raise" THEN Pop(c)
    ELSE IF c.sig.data.shape # "True"
    THEN Raise(c, "InvalidAuth")
    ELSE Return([c EXCEPT !.flow.session = "closed"],
                Body("none", "info", c.flow.hub[1].username, None, <<>>))

validate_input_after_auth(c) ==
    LET c1 == [c EXCEPT !.flow.session = "closed"]
    IN IF c.sig.type = "raise" THEN Pop(c1)
       ELSE IF c.sig.data.shape # "True"
       THEN Raise(c1, "InvalidAuth")
       ELSE Return(c1, Body("none", "info", c.flow.hub[1].username, None, <<>>))

\* except Exception: everything but the BaseExceptions, of which the
\* cancellation is the one met here
IsException(exc) == exc # "CancelledError"

\* config_flow.py:63-75: the form with no input; the abort for a unique id
\* that is configured already (raised before the try); the validation
async_step_user_call(c, user_input) ==
    LET c1 == Push([c EXCEPT !.flow.session = "none", !.flow.hub = <<>>,
                             !.flow.input = user_input],
                   Frame("async_step_user", "validate"))
    IN IF user_input = <<>> THEN async_show_form(c1, None)
       ELSE IF user_input[1].username \in c.flow.configured
       THEN Raise(c1, "AbortFlow")
       ELSE validate_input_call(c1, user_input[1])

\* config_flow.py:75-92: validate_input has returned or raised.  The host
\* registers a created entry under its unique id.
async_step_user_after_validate(c) ==
    IF c.sig.type = "return"
    THEN Return([c EXCEPT
                   !.flow.entries =
                       Append(@, [title |-> c.sig.data.a, data |-> c.flow.input[1]]),
                   !.flow.configured = @ \cup {c.flow.input[1].username}],
                FlowResult("create_entry", c.sig.data.a, None))
    ELSE IF c.sig.exc = "CannotConnect" THEN async_show_form(c, "cannot_connect")
    ELSE IF c.sig.exc = "InvalidAuth" THEN async_show_form(c, "invalid_auth")
    ELSE IF IsException(c.sig.exc) THEN async_show_form(c, "unknown")
    ELSE Pop(c)

\* ---- running a task to its next await ----

\* the callee has returned or raised: its caller goes on
Continue(c) ==
    LET f == Top(c)
    IN CASE f.fn = "_api_request" /\ f.pc = "auth" -> _api_request_after_auth(c)
         [] f.fn = "_api_request" /\ f.pc = "reauth" -> _api_request_after_reauth(c)
         [] f.fn = "async_test_authentication" -> async_test_authentication_after_token(c)
         [] f.fn = "_get_customer_data" /\ f.pc = "auth" -> _get_customer_data_after_auth(c)
         [] f.fn = "_get_customer_data" /\ f.pc = "request" -> _get_customer_data_after_request(c)
         [] f.fn = "_get_subscription_data" /\ f.pc = "customer" -> _get_subscription_data_after_customer(c)
         [] f.fn = "_get_subscription_data" /\ f.pc = "request" -> _get_subscription_data_after_request(c)
         [] f.fn = "fetch_consumption" /\ f.pc = "resolve" -> fetch_consumption_after_resolve(c)
         [] f.fn = "fetch_consumption" /\ f.pc = "request" -> fetch_consumption_after_request(c)
         [] f.fn = "async_update_historical" -> async_update_historical_after_fetch(c)
         [] f.fn = "validate_input" -> validate_input_after_auth(c)
         [] f.fn = "async_step_user" -> async_step_user_after_validate(c)

RECURSIVE Run(_)
Run(c) ==
    IF c.sig.type = "wait" \/ c.stack = <<>> THEN c ELSE Run(Continue(c))


(***************************************************************************)
(* The client's state machine.                                             *)
(***************************************************************************)
apiVars == << access_token, customer_code, customer_id, group_id,
              balance_group_id, stack, result, ncalls, callers, call,
              completed, last_auth, historical_states, flow >>

vars == << aggVars, apiVars >>

NoResult == Sig("none", None, NoBody, <<>>)

\* TridensApiClient.__init__ (api.py:58-75); nothing runs yet
InitClient ==
    /\ access_token = None
    /\ customer_code = None
    /\ customer_id = None
    /\ group_id = None
    /\ balance_group_id = None
    /\ stack = [t \in Tasks |-> <<>>]
    /\ result = [t \in Tasks |-> NoResult]
    /\ ncalls = [t \in Tasks |-> 0]
    /\ call = [t \in Tasks |-> NoCall]
    /\ completed = [t \in Tasks |-> NoRequest]
    /\ last_auth = [t \in Tasks |-> NoAuth]
    /\ historical_states = [t \in Tasks |-> <<>>]
    /\ flow = NoFlow

Session ==
    [access_token |-> access_token, customer_code |-> customer_code,
     customer_id |-> customer_id, group_id |-> group_id,
     balance_group_id |-> balance_group_id]

\* completed and last_auth describe the invocations that ended in the
\* step just taken; they start empty in every step
Load(t) ==
    [sess |-> Session, stack |-> stack[t], sig |-> WaitSig,
     call |-> call[t], done |-> NoRequest, authDone |-> NoAuth,
     sensor |-> t, hist |-> historical_states[t], flow |-> flow]

\* the task has run to its next await, or to the end of its operation
Store(t, c) ==
    /\ access_token' = c.sess.access_token
    /\ customer_code' = c.sess.customer_code
    /\ customer_id' = c.sess.customer_id
    /\ group_id' = c.sess.group_id
    /\ balance_group_id' = c.sess.balance_group_id
    /\ stack' = [stack EXCEPT ![t] = c.stack]
    /\ result' = [result EXCEPT ![t] = IF c.stack = <<>> THEN c.sig ELSE NoResult]
    /\ call' = [call EXCEPT ![t] = c.call]
    /\ completed' = [completed EXCEPT ![t] = c.done]
    /\ last_auth' = [last_auth EXCEPT ![t] = c.authDone]
    /\ historical_states' = [historical_states EXCEPT ![t] = c.hist]
    /\ flow' = c.flow
    /\ UNCHANGED << aggVars, callers >>

\* a caller starts an operation on the client
Begin(t) ==
    /\ t \in callers
    /\ stack[t] = <<>>
    /\ ncalls[t] < MaxCalls
    /\ ncalls' = [ncalls EXCEPT ![t] = @ + 1]

Fresh(t, op) ==
    [Load(t) EXCEPT
       !.call = [NoCall EXCEPT
                   !.op = op,
                   !.resolved = /\ customer_id # None
                                /\ balance_group_id # None,
                   !.fresh = Session = NoSession,
                   !.prior = [k \in Kinds |->
                                 call[t].prior[k] + call[t].invoked[k]]]]

Waiting(t, fn, pc) ==
    /\ stack[t] # <<>>
    /\ stack[t][Len(stack[t])].fn = fn
    /\ stack[t][Len(stack[t])].pc = pc

\* fetch_consumption(start, end) is called
FetchConsumption(t, start, end) ==
    /\ Begin(t)
    /\ Store(t, Run(fetch_consumption_call(Fresh(t, "fetch_consumption"),
                                           start, end)))

\* a sensor's async_update_historical calls fetch_consumption
\* (sensor.py:111-113, 251-253)
CallFetchConsumption(t) ==
    FetchConsumption(t, SensorWindow.start, SensorWindow.end)

\* fetch_consumption called with any of its arguments left out
CallFetchConsumptionWith(t) ==
    /\ ncalls[t] < MaxQueries
    /\ \E start \in Starts, end \in Ends : FetchConsumption(t, start, end)

\* one sensor's async_update_historical, while the other sensor's may be
\* under way
UpdateHistorical(t) ==
    /\ ncalls[t] < MaxUpdates
    /\ Begin(t)
    /\ Store(t, Run(async_update_historical_call(
                        Fresh(t, "async_update_historical"))))

\* the config flow calls async_test_authentication (config_flow.py:44)
CallTestAuthentication(t) ==
    /\ Begin(t)
    /\ Store(t, Run(async_test_authentication_call(
                        Fresh(t, "async_test_authentication"))))

\* the user opens the form or submits it (config_flow.py:63)
StepUser ==
    /\ Begin("flow")
    /\ \E user_input \in UserInputs :
          Store("flow", Run(async_step_user_call(Fresh("flow", "async_step_user"),
                                                 user_input)))

\* _api_request called on its own
CallApiRequest(t) ==
    /\ Begin(t)
    /\ Store(t, Run(_api_request_call(Fresh(t, "_api_request"), "direct", None,
                                      NoParams)))

\* the endpoint of the request task t waits on
TopKind(t) == IF stack[t] = <<>> THEN "none" ELSE stack[t][Len(stack[t])].kind

\* the authentication endpoint answers (api.py:90-92)
AuthAnswered(t, outcomes) ==
    /\ Waiting(t, "async_get_token", "post")
    /\ \E o \in outcomes :
          Store(t, Run(async_get_token_response(Load(t), o)))
    /\ UNCHANGED ncalls

AuthResponse(t) == AuthAnswered(t, AuthOutcomes)

\* the API answers the first attempt (api.py:171)
RequestAnswered(t, outcomes) ==
    /\ Waiting(t, "_api_request", "request")
    /\ \E o \in outcomes :
          Store(t, Run(_api_request_response(Load(t), o)))
    /\ UNCHANGED ncalls

RequestResponse(t) == RequestAnswered(t, ApiOutcomes(TopKind(t)))

\* the API answers the retry (api.py:178-180)
RetryAnswered(t, outcomes) ==
    /\ Waiting(t, "_api_request", "retry")
    /\ \E o \in outcomes :
          Store(t, Run(_api_request_retry_response(Load(t), o)))
    /\ UNCHANGED ncalls

RetryResponse(t) == RetryAnswered(t, ApiOutcomes(TopKind(t)))

\* the same three, from a server that is up
HealthyAuthResponse(t) == AuthAnswered(t, HealthyAuthOutcomes)
HealthyRequestResponse(t) == RequestAnswered(t, HealthyApiOutcomes(TopKind(t)))
HealthyRetryResponse(t) == RetryAnswered(t, HealthyApiOutcomes(TopKind(t)))

NextClient ==
    \E t \in Tasks :
        \/ CallFetchConsumption(t)
        \/ CallTestAuthentication(t)
        \/ CallApiRequest(t)
        \/ AuthResponse(t)
        \/ RequestResponse(t)
        \/ RetryResponse(t)

\* the sensors are idle while the client is looked at
IdleSensors ==
    /\ sensor = "energy"
    /\ pending = <<>>
    /\ aggregated = <<>>
    /\ hist_states = <<>>
    /\ latest = <<>>
    /\ first_latest = <<>>
    /\ statistic_data = <<>>
    /\ stored = <<>>
    /\ aggPc = "idle"

\* one caller, its operations one after the other
Init == InitClient /\ callers = {"energy"} /\ IdleSensors

Next == NextClient

Spec == Init /\ [][Next]_vars

\* fetch_consumption alone, with every combination of its arguments
NextQuery ==
    \E t \in Tasks :
        \/ CallFetchConsumptionWith(t)
        \/ AuthResponse(t)
        \/ RequestResponse(t)
        \/ RetryResponse(t)

SpecQuery == Init /\ [][NextQuery]_vars

\* async_setup_entry (sensor.py:341-356) hands one client to the energy
\* sensor and to the cost sensor; their updates run as two tasks that
\* interleave at the network awaits, against a server that is up
InitShared == InitClient /\ callers = Sensors /\ IdleSensors

NextShared ==
    \E t \in Tasks :
        \/ UpdateHistorical(t)
        \/ HealthyAuthResponse(t)
        \/ HealthyRequestResponse(t)
        \/ HealthyRetryResponse(t)

SpecShared == InitShared /\ [][NextShared]_vars

\* one sensor, either of the two, updating against a server that may answer
\* anything
InitUpdate == InitClient /\ (\E t \in Sensors : callers = {t}) /\ IdleSensors

NextUpdate ==
    \E t \in Tasks :
        \/ UpdateHistorical(t)
        \/ AuthResponse(t)
        \/ RequestResponse(t)
        \/ RetryResponse(t)

SpecUpdate == InitUpdate /\ [][NextUpdate]_vars

\* the setup flow: the user's steps and the authentication endpoint's
\* answers
InitFlow == InitClient /\ callers = {"flow"} /\ IdleSensors

NextFlow == StepUser \/ AuthResponse("flow")

SpecFlow == InitFlow /\ [][NextFlow]_vars

(***************************************************************************)
(* The aggregation state machine.                                          *)
(***************************************************************************)
InitAgg ==
    /\ sensor \in Sensors
    /\ pending \in Inputs
    /\ aggregated = <<>>
    /\ hist_states = <<>>
    /\ latest \in Latests
    /\ first_latest = latest
    /\ statistic_data = <<>>
    /\ stored = <<>>
    /\ aggPc = "idle"
    /\ InitClient /\ callers = {}

\* The host calls async_calculate_statistic_data with the next batch (any
\* prefix of what is pending, the empty one included) and the latest stored
\* statistic.
CalculateStatistics ==
    /\ aggPc = "idle"
    /\ \E k \in 0..Len(pending) :
          /\ hist_states' = SubSeq(pending, 1, k)
          /\ pending' = SubSeq(pending, k + 1, Len(pending))
    /\ statistic_data' = async_calculate_statistic_data(sensor, hist_states', latest)
    /\ aggPc' = "calculated"
    /\ UNCHANGED << sensor, aggregated, latest, first_latest, stored, apiVars >>

\* The host imports the returned statistics; the last one imported is the
\* latest of the next call.
ImportStatistics ==
    /\ aggPc = "calculated"
    /\ stored' = stored \o statistic_data
    /\ aggregated' = aggregated \o hist_states
    /\ latest' = IF statistic_data # <<>>
                 THEN << [sum |-> statistic_data[Len(statistic_data)].sum] >>
                 ELSE latest
    /\ aggPc' = "idle"
    /\ UNCHANGED << sensor, pending, hist_states, first_latest, statistic_data,
                    apiVars >>

NextAgg == CalculateStatistics \/ ImportStatistics

SpecAgg == InitAgg /\ [][NextAgg]_vars

(***************************************************************************)
(* Claims about the client (checked under Spec).                           *)
(***************************************************************************)
AllOk(auths) == \A i \in 1..Len(auths) : auths[i] = "ok"

Answered(a, statuses) == a.type = "http" /\ a.status \in statuses

\* a 200 answer whose JSON body is there to be returned
Answered200(a) == Answered(a, {200}) /\ a.body.ctype = "json"

\* an _api_request invocation has just ended in task t
JustCompleted(t) == completed[t].kind # "none"

\* C1: from no token, a first attempt answered 401 or 403 and a retry
\* answered 200, with every authentication succeeding: _api_request returns
\* the retried answer's body after exactly 2 attempts and exactly 2
\* authenticate calls.
C1_RetryOnce ==
    \A t \in Tasks :
        LET d == completed[t]
        IN (/\ JustCompleted(t)
            /\ d.entry_token = None
            /\ AllOk(d.auths)
            /\ Len(d.attempts) >= 1
            /\ Answered(d.attempts[1], {401, 403})
            /\ Len(d.attempts) >= 2 => Answered200(d.attempts[2]))
           => /\ Len(d.attempts) = 2
              /\ Len(d.auths) = 2
              /\ d.sig.type = "return"
              /\ d.sig.data = d.attempts[2].body

C1_Witness ==
    \E t \in Tasks :
        LET d == completed[t]
        IN /\ JustCompleted(t)
           /\ call[t].op = "_api_request"
           /\ d.entry_token = None
           /\ d.auths = <<"ok", "ok">>
           /\ Len(d.attempts) = 2
           /\ Answered(d.attempts[1], {401})
           /\ Answered200(d.attempts[2])
           /\ d.attempts[1].bearer # d.attempts[2].bearer
           /\ result[t].type = "return"
           /\ call[t].auth = 2 /\ call[t].sent["direct"] = 2

\* C2: from no token, with 401 answered to the original and to the retried
\* attempt and every authentication succeeding: _api_request raises
\* CannotConnect, never InvalidAuth, after exactly 2 authenticate calls and
\* exactly 2 attempts.
C2_Double401 ==
    \A t \in Tasks :
        LET d == completed[t]
        IN (/\ JustCompleted(t)
            /\ d.entry_token = None
            /\ AllOk(d.auths)
            /\ Len(d.attempts) >= 2
            /\ \A i \in 1..Len(d.attempts) : Answered(d.attempts[i], {401}))
           => /\ Len(d.attempts) = 2
              /\ Len(d.auths) = 2
              /\ d.sig.type = "raise"
              /\ d.sig.exc = "CannotConnect"

C2_Witness ==
    \E t \in Tasks :
        LET d == completed[t]
        IN /\ JustCompleted(t)
           /\ d.entry_token = None
           /\ d.auths = <<"ok", "ok">>
           /\ Len(d.attempts) = 2
           /\ Answered(d.attempts[1], {401})
           /\ Answered(d.attempts[2], {401})
           /\ result[t].type = "raise"
           /\ result[t].exc = "CannotConnect"

\* requests this frame of _api_request has sent, authenticate calls it has
\* made, answered or not
SentBy(f) == Len(f.attempts) + (IF f.pc \in {"request", "retry"} THEN 1 ELSE 0)
AuthsBy(f) == Len(f.auths) + (IF f.pc \in {"auth", "reauth"} THEN 1 ELSE 0)

\* C3: whatever the server answers, one invocation of _api_request makes at
\* most 2 attempts and at most 2 authenticate calls, makes the second
\* attempt only after a 401 or 403 to the first, and is over as soon as the
\* second attempt is answered: there is no third attempt and no
\* re-authentication loop.
C3_BoundedRetry ==
    \A t \in Tasks :
        /\ \A i \in 1..Len(stack[t]) :
              LET f == stack[t][i]
              IN f.fn = "_api_request" =>
                    /\ SentBy(f) <= 2
                    /\ AuthsBy(f) <= 2
                    /\ Len(f.attempts) <= 1
                    /\ SentBy(f) = 2 => Answered(f.attempts[1], {401, 403})
        /\ LET d == completed[t]
           IN /\ Len(d.attempts) <= 2
              /\ Len(d.auths) <= 2
              /\ Len(d.attempts) = 2 => Answered(d.attempts[1], {401, 403})

C3_Witness ==
    \E t \in Tasks :
        LET d == completed[t]
        IN /\ JustCompleted(t)
           /\ Len(d.attempts) = 2
           /\ Answered(d.attempts[2], {403})
           /\ Len(d.auths) = 1
           /\ d.entry_token # None

\* an async_get_token invocation has just ended in task t
JustAuthenticated(t) == last_auth[t].type # "none"

TokenStateKept(a) ==
    /\ access_token = a.token_before
    /\ customer_code = a.code_before

RaisedBy(a, exc) == a.sig.type = "raise" /\ a.sig.exc = exc

\* C4: when the authentication endpoint answers 401 or 403,
\* async_get_token raises InvalidAuth after exactly one POST, and
\* access_token and the customer code keep the values they had.
C4_CredentialRejection ==
    \A t \in Tasks :
        LET a == last_auth[t]
        IN (JustAuthenticated(t) /\ Answered(a, {401, 403})) =>
              /\ RaisedBy(a, "InvalidAuth")
              /\ a.posts = 1
              /\ TokenStateKept(a)

C4_Witness ==
    \E t \in Tasks :
        LET a == last_auth[t]
        IN /\ JustAuthenticated(t)
           /\ Answered(a, {403})
           /\ a.token_before = "jwt1"
           /\ access_token = "jwt1"
           /\ customer_code = "cust1"
           /\ result[t].type = "raise" /\ result[t].exc = "InvalidAuth"

NeitherField(a) ==
    /\ a.body.ctype = "json"
    /\ a.body.access_token = Absent
    /\ a.body.token = Absent

TotalInvoked(t, kind) == call[t].prior[kind] + call[t].invoked[kind]

\* C6, in the specification's words: two calls of fetch_consumption in sequence issue the
\* customer-profile lookup and the subscription lookup only once in total.
C6_LookupsOnceInTotal ==
    \A t \in Tasks :
        ncalls[t] <= 2 =>
            /\ TotalInvoked(t, "customer") <= 1
            /\ TotalInvoked(t, "subscription") <= 1

\* C6, as the code has it: when the first call of fetch_consumption has set
\* customer_id and balance_group_id, it has made each lookup once, and the
\* second call makes neither lookup again: it reuses the identifiers and
\* issues the usage-events request only.
C6_CachedLookups ==
    \A t \in Tasks :
        (ncalls[t] = 2 /\ call[t].op = "fetch_consumption" /\ call[t].resolved) =>
            /\ call[t].invoked["customer"] = 0
            /\ call[t].invoked["subscription"] = 0
            /\ call[t].sent["customer"] = 0
            /\ call[t].sent["subscription"] = 0
            /\ call[t].invoked["usage"] = 1
            /\ TotalInvoked(t, "customer") = 1
            /\ TotalInvoked(t, "subscription") = 1

C6_Witness ==
    \E t \in Tasks :
        /\ ncalls[t] = 2
        /\ call[t].op = "fetch_consumption"
        /\ call[t].resolved
        /\ stack[t] = <<>>
        /\ result[t].type = "return"
        /\ result[t].records # <<>>
        /\ call[t].sent["usage"] = 1
        /\ call[t].auth = 0

\* the token an authentication response carries: access_token, else token
TokenIn(body) ==
    IF body.access_token # Absent THEN body.access_token ELSE body.token

\* the authentication that ended in the step just taken stored a token
Refreshed(t) == JustAuthenticated(t) /\ last_auth[t].sig.type = "return"

InFlight(f) == f.fn = "_api_request" /\ f.pc \in {"request", "retry"}

\* C11: every request _api_request has in flight, first attempt or retry,
\* carries a bearer token that is not None and is the client's access_token
\* as it was when the request was sent; with no token held on entry an
\* authentication has returned before the first attempt is sent; and the
\* retry carries the token the re-authentication obtained, the first
\* attempt having carried the one the client held then.
C11_BearerIsCurrentToken ==
    \A t \in Tasks :
        /\ \A i \in 1..Len(stack[t]) :
              LET f == stack[t][i]
              IN InFlight(f) =>
                   /\ f.bearer # None
                   /\ f.bearer = access_token
                   /\ (f.pc = "request" /\ f.entry_token = None) =>
                         /\ f.auths = <<"ok">>
                         /\ Refreshed(t)
                         /\ f.bearer = TokenIn(last_auth[t].body)
                   /\ (f.pc = "request" /\ f.entry_token # None) =>
                         /\ f.auths = <<>>
                         /\ f.bearer = f.entry_token
                   /\ f.pc = "retry" =>
                         /\ Answered(f.attempts[1], {401, 403})
                         /\ f.auths[Len(f.auths)] = "ok"
                         /\ Refreshed(t)
                         /\ f.bearer = TokenIn(last_auth[t].body)
        /\ \A i \in 1..Len(completed[t].attempts) :
              completed[t].attempts[i].bearer # None

C11_Witness ==
    \E t \in Tasks :
        /\ Waiting(t, "_api_request", "retry")
        /\ LET f == stack[t][Len(stack[t])]
           IN /\ f.entry_token = None
              /\ f.attempts[1].bearer = "jwt1"
              /\ f.bearer = "jwt2"
              /\ access_token = "jwt2"

\* task t runs, or has just ended, the operation op
Running(t, op) == call[t].op = op
Ended(t, op) == call[t].op = op /\ stack[t] = <<>>

NoRequests(t) ==
    \A k \in Kinds : call[t].sent[k] = 0 /\ call[t].invoked[k] = 0

\* the step is one of task t
Moved(t) ==
    stack'[t] # stack[t] \/ ncalls'[t] # ncalls[t] \/ call'[t] # call[t]

IdentifiersKept ==
    /\ group_id' = group_id
    /\ customer_id' = customer_id
    /\ balance_group_id' = balance_group_id

ReturnedTrue(t) == result[t].type = "return" /\ result[t].data.shape = "True"

C12_Requests ==
    \A t \in Tasks :
        /\ Running(t, "async_test_authentication") =>
              /\ call[t].auth = 1
              /\ NoRequests(t)
        /\ Ended(t, "async_test_authentication") =>
              /\ JustAuthenticated(t)
              /\ last_auth[t].posts = 1
              /\ ReturnedTrue(t) <=> last_auth[t].sig.type = "return"
              /\ ~ReturnedTrue(t) =>
                    /\ result[t].type = "raise"
                    /\ result[t].exc = last_auth[t].sig.exc
                    /\ result[t].exc \in {"InvalidAuth", "CannotConnect",
                                          "ValueError", "DecodeError",
                                          "TimeoutError", "CancelledError"}

\* no step of async_test_authentication touches the identifiers
C12_Frame ==
    \A t \in Tasks :
        (Moved(t) /\ call'[t].op = "async_test_authentication") => IdentifiersKept

FirstPage(params) ==
    /\ params.service_type = <<"HEAT_METER_READ_SERVICE">>
    /\ params.page = <<1>>
    /\ params.count = <<100>>
    /\ params.order_dir = <<"desc">>

\* C13: a call of fetch_consumption invokes the usage-events query at most
\* once, and exactly once when it returns records: one request, and one
\* retry of it only after a 401 or 403; the query is always for page 1,
\* count 100, descending; time-from is there exactly when start is given and
\* time-to exactly when end is given.
C13_SinglePageQuery ==
    \A t \in Tasks :
        Running(t, "fetch_consumption") =>
            /\ call[t].invoked["usage"] <= 1
            /\ call[t].sent["usage"] <= 2
            /\ call[t].sent["usage"] <= call[t].invoked["usage"] * 2
            /\ (Ended(t, "fetch_consumption") /\ result[t].type = "return") =>
                  /\ call[t].invoked["usage"] = 1
                  /\ call[t].sent["usage"] >= 1
                  /\ completed[t].kind = "usage"
            /\ completed[t].kind = "usage" =>
                  /\ FirstPage(completed[t].params)
                  /\ Len(completed[t].attempts) = 2 =>
                        Answered(completed[t].attempts[1], {401, 403})
            /\ \A i \in 1..Len(stack[t]) :
                  LET f == stack[t][i]
                      args == stack[t][1]
                  IN (f.fn = "_api_request" /\ f.kind = "usage") =>
                        /\ args.fn = "fetch_consumption"
                        /\ FirstPage(f.params)
                        /\ f.params.time_from # <<>> <=> args.start # <<>>
                        /\ f.params.time_to # <<>> <=> args.end # <<>>
                        /\ args.start = <<1500>> => f.params.time_from = <<1000>>
                        /\ args.end = <<2500>> => f.params.time_to = <<2000>>
                        /\ SentBy(f) = 2 => Answered(f.attempts[1], {401, 403})

C13_Witness ==
    \E t \in Tasks :
        /\ Waiting(t, "_api_request", "retry")
        /\ LET f == stack[t][Len(stack[t])]
           IN /\ f.kind = "usage"
              /\ stack[t][1].start = <<>>
              /\ stack[t][1].end = <<2500>>
              /\ f.params.time_from = <<>>
              /\ f.params.time_to = <<2000>>
              /\ call[t].sent["usage"] = 2

(***************************************************************************)
(* More claims about the client (checked under Spec).                      *)
(***************************************************************************)
\* C14: in a fetch_consumption that starts on a client with nothing
\* resolved, no customer-profile lookup is sent before an authentication has
\* succeeded, no subscription lookup is called or sent before the customer
\* lookup has returned, and no usage-events query is called or sent before
\* the subscription lookup has returned.
C14_StrictOrder ==
    \A t \in Tasks :
        (Running(t, "fetch_consumption") /\ call[t].fresh) =>
            LET k == call[t]
            IN /\ (k.invoked["customer"] > 0 \/ k.sent["customer"] > 0) =>
                     (k.auth >= 1 /\ k.authok >= 1)
               /\ (k.invoked["subscription"] > 0 \/ k.sent["subscription"] > 0) =>
                     k.returned["customer"] >= 1
               /\ (k.invoked["usage"] > 0 \/ k.sent["usage"] > 0) =>
                     k.returned["subscription"] >= 1
               /\ k.sent["direct"] = 0

C14_Witness ==
    \E t \in Tasks :
        /\ Ended(t, "fetch_consumption")
        /\ call[t].fresh
        /\ result[t].type = "return"
        /\ result[t].records # <<>>
        /\ call[t].auth = 1
        /\ call[t].sent["customer"] = 1
        /\ call[t].sent["subscription"] = 1
        /\ call[t].sent["usage"] = 1

\* in the operation of t, the lookup of this kind has returned a body of one
\* of these shapes
LookupReturned(t, kind, shapes) ==
    /\ call[t].returned[kind] >= 1
    /\ call[t].got[kind] \in shapes

UnusableSubscriptions ==
    {"no_objects", "no_subscriptions", "no_balance_group", "no_id"}

\* C15: when the subscription lookup succeeds at HTTP level and the
\* identifiers cannot be extracted from its body (no objects, no
\* subscriptions, no balance_group, no id), _get_subscription_data raises
\* nothing to its caller, which goes on to the usage-events query, and
\* customer_id and balance_group_id both stay unset.
C15_ExtractionSwallowed ==
    \A t \in Tasks :
        (/\ Running(t, "fetch_consumption")
         /\ call[t].fresh
         /\ LookupReturned(t, "subscription", UnusableSubscriptions)) =>
            /\ result[t].type # "raise"
            /\ call[t].invoked["usage"] = 1
            /\ customer_id = None
            /\ balance_group_id = None

UnusableGroups == {"no_groups", "empty_groups", "group_no_id"}

\* C16: when the customer-profile lookup succeeds at HTTP level and its body
\* has no usable first group (groups missing, empty, or without id),
\* _get_customer_data raises nothing, group_id stays unset, and
\* _get_subscription_data goes on to call the subscription lookup.
C16_GroupFailureNonFatal ==
    \A t \in Tasks :
        (/\ Running(t, "fetch_consumption")
         /\ LookupReturned(t, "customer", UnusableGroups)) =>
            /\ group_id = None
            /\ call[t].invoked["subscription"] = 1
            /\ call[t].invoked["customer"] = 1
            /\ result[t].type = "raise" => result[t].exc = "TypeError"

C16_Witness ==
    \E t \in Tasks :
        /\ Running(t, "fetch_consumption")
        /\ LookupReturned(t, "customer", {"empty_groups"})
        /\ group_id = None
        /\ access_token = "jwt1"
        /\ call[t].invoked["subscription"] = 1

\* C17: a call that fails leaves nothing half updated: a failed
\* async_get_token leaves access_token as it was (the token is replaced only
\* together with the customer code taken from it), and a subscription lookup
\* that does not set customer_id does not set balance_group_id either.
C17_NoPartialUpdate ==
    \A t \in Tasks :
        /\ (JustAuthenticated(t) /\ last_auth[t].sig.type = "raise") =>
              TokenStateKept(last_auth[t])
        /\ (/\ Running(t, "fetch_consumption")
            /\ call[t].fresh
            /\ LookupReturned(t, "subscription", UnusableSubscriptions)) =>
              balance_group_id = None

\* a field that holds a value keeps it in this step
Kept(before, after) == before # None => after = before

\* C18, in the specification's words: once the customer code, group_id,
\* customer_id or balance_group_id holds a value, no step clears it or
\* replaces it with another.
C18_CacheForever ==
    [][/\ Kept(customer_code, customer_code')
       /\ Kept(group_id, group_id')
       /\ Kept(customer_id, customer_id')
       /\ Kept(balance_group_id, balance_group_id')]_vars

\* C18, as the code has it, for operations that run one after the other:
\* group_id, once it holds a value, is never cleared or replaced; customer_id
\* and balance_group_id, once both hold a value, are never cleared or
\* replaced; the customer code is taken anew from the token at every
\* authentication that returns, and changes at no other step.
C18_CachedIdentifiers ==
    [][/\ Kept(group_id, group_id')
       /\ (customer_id # None /\ balance_group_id # None) =>
             /\ customer_id' = customer_id
             /\ balance_group_id' = balance_group_id
       /\ customer_code' # customer_code =>
             \E t \in Tasks :
                /\ last_auth'[t].sig.type = "return"
                /\ access_token' = TokenIn(last_auth'[t].body)
                /\ customer_code' = CustomerCodeOf(access_token')]_vars

C18_Witness ==
    \E t \in Tasks :
        /\ Ended(t, "fetch_consumption")
        /\ call[t].resolved
        /\ call[t].auth = 1
        /\ result[t].type = "return"
        /\ group_id = "g1"
        /\ customer_id = "k1"
        /\ balance_group_id = "b1"
        /\ access_token = "jwt_nocode"
        /\ customer_code = None

\* C19: when customer_id is still unset after the lookups, fetch_consumption
\* ends in a failure where the field is needed: it never returns what a
\* usage-events query built with the unset customer_id brought back.
C19_UnsetCustomerSurfaces ==
    \A t \in Tasks :
        (/\ Ended(t, "fetch_consumption")
         /\ completed[t].kind = "usage"
         /\ completed[t].key = None) =>
            result[t].type = "raise"

\* the first attempt has been answered, and not with 401 or 403
FirstAttemptNotRejected(attempts) ==
    /\ Len(attempts) >= 1
    /\ ~Answered(attempts[1], {401, 403})

\* C21: when _api_request is entered with a token held and its first attempt
\* is answered with anything but 401 or 403 (a body, another error status, a
\* network failure), the invocation makes no authenticate call and no second
\* attempt, and access_token, the customer code, group_id, customer_id and
\* balance_group_id are at its end what they were at its entry; nor do they
\* change while the first attempt is in flight.
C21_StateOnlyThroughReauth ==
    \A t \in Tasks :
        /\ \A i \in 1..Len(stack[t]) :
              LET f == stack[t][i]
              IN (/\ f.fn = "_api_request"
                  /\ f.pc = "request"
                  /\ f.entry_token # None) =>
                    /\ f.auths = <<>>
                    /\ Session = f.entry
        /\ LET d == completed[t]
           IN (/\ JustCompleted(t)
               /\ d.entry_token # None
               /\ FirstAttemptNotRejected(d.attempts)) =>
                 /\ d.auths = <<>>
                 /\ Len(d.attempts) = 1
                 /\ d.kept
                 /\ ~JustAuthenticated(t)
                 /\ Ended(t, "_api_request") =>
                       /\ call[t].auth = 0
                       /\ access_token = d.entry_token

C21_Witness ==
    \E t \in Tasks :
        LET d == completed[t]
        IN /\ Ended(t, "_api_request")
           /\ JustCompleted(t)
           /\ d.entry_token = "jwt1"
           /\ Answered(d.attempts[1], {500})
           /\ result[t].type = "raise"
           /\ result[t].exc = "CannotConnect"
           /\ access_token = "jwt1"
           /\ customer_code = "cust1"
           /\ group_id = "g1"
           /\ customer_id = "k1"
           /\ balance_group_id = "b1"

\* every authenticate call of the invocation ended with a token or with one
\* of the two errors of the client
TypedAuths(auths) ==
    \A i \in 1..Len(auths) : auths[i] \in {"ok", "InvalidAuth", "CannotConnect"}

LastAuthRejected(auths) ==
    auths # <<>> /\ auths[Len(auths)] = "InvalidAuth"

NotCancelled(attempts) ==
    \A i \in 1..Len(attempts) : attempts[i].type # "cancelled"

\* C22: when an attempt is answered 401 or 403 and the re-authentication is
\* itself rejected, _api_request raises InvalidAuth without a retry;
\* _api_request raises InvalidAuth only when an authenticate call it made
\* was rejected; and every other failure of a request that went out (an
\* error status, a network failure including a timeout, an answer that
\* cannot be read, a failed retry) is raised as CannotConnect.
\* (Cancellation of the call is left aside.)
C22_FailuresTyped ==
    \A t \in Tasks :
        LET d == completed[t]
        IN (/\ JustCompleted(t)
            /\ d.sig.type = "raise"
            /\ TypedAuths(d.auths)
            /\ NotCancelled(d.attempts)
            /\ (d.attempts # <<>> \/ ~AllOk(d.auths))) =>
              /\ d.sig.exc \in {"InvalidAuth", "CannotConnect"}
              /\ d.sig.exc = "InvalidAuth" <=> LastAuthRejected(d.auths)
              /\ (d.attempts # <<>> /\ LastAuthRejected(d.auths)) =>
                    /\ Len(d.attempts) = 1
                    /\ Answered(d.attempts[1], {401, 403})

(***************************************************************************)
(* The two sensors on one client (checked under SpecShared).               *)
(***************************************************************************)
Together(f(_)) == f(call["energy"]) + f(call["cost"])

Posts(k) == k.auth
CustomerLookups(k) == k.invoked["customer"]
SubscriptionLookups(k) == k.invoked["subscription"]
RequestsSent(k) ==
    k.sent["customer"] + k.sent["subscription"] + k.sent["usage"]

\* C20: when both sensors run fetch_consumption on a client with nothing
\* resolved, the pair makes at most one authentication (as long as no
\* request has gone out that could have been rejected) and issues the
\* customer-profile lookup and the subscription lookup at most once each.
C20_NoRace ==
    /\ Together(RequestsSent) = 0 => Together(Posts) <= 1
    /\ Together(CustomerLookups) <= 1
    /\ Together(SubscriptionLookups) <= 1

(***************************************************************************)
(* A sensor's update (checked under SpecUpdate).                           *)
(***************************************************************************)
\* the instant of a datetime, in milliseconds since the epoch
InstantMs(dt) == dt.s * 1000 + dt.us \div 1000

OneDayMs == 86400000

\* what an update that has returned leaves behind
C24_Mapping ==
    \A t \in Tasks :
        Ended(t, "async_update_historical") =>
            LET events == completed[t].sig.data.events
                records == call[t].fetched
                states == historical_states[t]
            IN /\ result[t].type = "return" =>
                     /\ completed[t].kind = "usage"
                     /\ completed[t].sig.type = "return"
                     /\ Len(records) = Len(events)
                     /\ Len(states) = Len(records)
                     /\ \A i \in 1..Len(records) :
                           /\ InstantMs(records[i].time_of_read)
                                 = events[i].time_of_read
                           /\ records[i].consumption = events[i].quantity
                           /\ records[i].cost = events[i].amount_with_discount
                           /\ InstantMs(states[i].dt)
                                 = InstantMs(records[i].time_of_read) - OneDayMs
                           /\ states[i].dt.us = records[i].time_of_read.us
                           /\ states[i].dt.tz # "naive"
                           /\ t = "energy" =>
                                 states[i].state = records[i].consumption
                           /\ t = "cost" =>
                                 states[i].state = records[i].cost
               /\ result[t].type = "raise" => records = <<>>

\* a sensor's historical states change only in the step in which its
\* update returns
C24_Frame ==
    \A t \in Tasks :
        historical_states'[t] # historical_states[t] =>
            /\ call'[t].op = "async_update_historical"
            /\ stack'[t] = <<>>
            /\ result'[t].type = "return"

\* C24: fetch_consumption hands over one record per usage event of the
\* answer, in the answer's order, with the event's own timestamp, quantity
\* and amount; async_update_historical makes of them exactly one historical
\* state per record, in the same order, dated exactly one day before the
\* record's timestamp (and aware), carrying the record's consumption in the
\* energy sensor and its cost in the cost sensor; when fetch_consumption
\* raises, the sensor's historical states are left as they were.
C24_OneDayCorrection == []C24_Mapping /\ [][C24_Frame]_vars

C24_Witness ==
    /\ Ended("cost", "async_update_historical")
    /\ result["cost"].type = "return"
    /\ Len(call["cost"].fetched) = 2
    /\ Len(historical_states["cost"]) = 2
    /\ historical_states["cost"][1].state = 1
    /\ historical_states["cost"][2].state = 5
    /\ InstantMs(historical_states["cost"][1].dt) = 3600500
    /\ InstantMs(historical_states["cost"][2].dt) = 90000000

(***************************************************************************)
(* The setup flow (checked under SpecFlow).                                *)
(***************************************************************************)
\* the step has ended by showing the form with this errors["base"]
FormShown(base) ==
    /\ result["flow"].type = "return"
    /\ result["flow"].data.shape = "form"
    /\ result["flow"].data.b = base

\* the step has ended by creating an entry
EntryCreated ==
    /\ result["flow"].type = "return"
    /\ result["flow"].data.shape = "create_entry"

\* how a step of the flow has ended
C25_StepOutcome ==
    LET a == last_auth["flow"]
    IN /\ Running("flow", "async_step_user") =>
             /\ stack["flow"] # <<>> => flow.session = "open"
             /\ stack["flow"] = <<>> => flow.session \in {"none", "closed"}
       /\ Ended("flow", "async_step_user") =>
             /\ flow.session = "closed" <=> JustAuthenticated("flow")
             /\ EntryCreated =>
                   /\ JustAuthenticated("flow")
                   /\ a.sig.type = "return"
                   /\ a.posts = 1
                   /\ access_token # None
                   /\ flow.hub = flow.input
                   /\ flow.entries # <<>>
                   /\ flow.entries[Len(flow.entries)] =
                         [title |-> flow.input[1].username, data |-> flow.input[1]]
             /\ JustAuthenticated("flow") =>
                   /\ a.sig.type = "return" => EntryCreated
                   /\ RaisedBy(a, "InvalidAuth") => FormShown("invalid_auth")
                   /\ RaisedBy(a, "CannotConnect") => FormShown("cannot_connect")
                   /\ (/\ a.sig.type = "raise"
                       /\ a.sig.exc \notin {"InvalidAuth", "CannotConnect"}
                       /\ IsException(a.sig.exc)) => FormShown("unknown")
                   /\ RaisedBy(a, "CancelledError") =>
                         /\ result["flow"].type = "raise"
                         /\ result["flow"].exc = "CancelledError"
             /\ ~JustAuthenticated("flow") =>
                   \/ flow.input = <<>> /\ FormShown(None)
                   \/ /\ flow.input # <<>>
                      /\ flow.input[1].username \in flow.configured
                      /\ result["flow"].type = "raise"
                      /\ result["flow"].exc = "AbortFlow"

\* entries are created one at a time, in the step in which the
\* authentication has returned, and never removed
C25_EntryCreation ==
    flow'.entries # flow.entries =>
        /\ last_auth'["flow"].sig.type = "return"
        /\ flow'.hub = flow'.input
        /\ flow'.entries = Append(flow.entries,
                                  [title |-> flow'.input[1].username,
                                   data |-> flow'.input[1]])
        /\ result'["flow"].data.shape = "create_entry"

\* C25: a config entry is created only in a step in which the
\* authentication of a client built from the submitted credentials has
\* succeeded; when the authentication raises InvalidAuth the form is shown
\* again with error invalid_auth, when it raises CannotConnect with error
\* cannot_connect, when it raises any other Exception with error unknown,
\* and no entry is created in those cases (nor when the step is cancelled,
\* which is no Exception and ends the step with the cancellation); the
\* session opened for the validation is closed whenever the step has
\* ended.
C25_SetupFlow == []C25_StepOutcome /\ [][C25_EntryCreation]_vars

C25_Witness ==
    /\ Ended("flow", "async_step_user")
    /\ ncalls["flow"] = 2
    /\ Len(flow.entries) = 1
    /\ flow.entries[1].title = "alice"
    /\ flow.input # <<>>
    /\ flow.input[1].username = "bob"
    /\ RaisedBy(last_auth["flow"], "DecodeError")
    /\ FormShown("unknown")
    /\ flow.session = "closed"

(***************************************************************************)
(* Claims about the aggregation (checked under SpecAgg).                   *)
(***************************************************************************)
SeedOf(lat) == IF lat = <<>> THEN 0 ELSE lat[1].sum

Sums(stats) == [i \in 1..Len(stats) |-> stats[i].sum]

RECURSIVE SumRange(_, _, _)
SumRange(states, a, b) ==
    IF a > b THEN 0 ELSE states[a].state + SumRange(states, a + 1, b)

\* positions at which a maximal run of one calendar day starts
RunStarts(states) ==
    { i \in 1..Len(states) : i = 1 \/ states[i].dt.day # states[i - 1].dt.day }

NthRunStart(states, j) ==
    CHOOSE i \in RunStarts(states) :
        Cardinality({ m \in RunStarts(states) : m <= i }) = j

NthRunEnd(states, j) ==
    IF j = Cardinality(RunStarts(states)) THEN Len(states)
    ELSE NthRunStart(states, j + 1) - 1

LaterDays(A, B) ==
    \A i \in 1..Len(A), j \in 1..Len(B) : B[j].dt.day > A[i].dt.day

NonNegative(states) == \A i \in 1..Len(states) : states[i].state >= 0

\* C7: in the returned statistics the sum of entry i is the sum of entry i-1
\* plus the state of entry i, and the sum of the first entry is the seed
\* (latest["sum"], 0 without latest) plus the first entry's state.
C7_CumulativeSum ==
    aggPc = "calculated" =>
        \A i \in 1..Len(statistic_data) :
            statistic_data[i].sum =
                (IF i = 1 THEN SeedOf(latest) ELSE statistic_data[i - 1].sum)
                + statistic_data[i].state

C7_Witness ==
    /\ aggPc = "calculated"
    /\ sensor = "cost"
    /\ Len(statistic_data) >= 2
    /\ latest # <<>> /\ latest[1].sum = 7
    /\ statistic_data[2].state # 0

\* C8: the returned statistics have exactly one entry per maximal contiguous
\* run of historical states of one calendar day, in input order, the entry's
\* state being the sum of the run; [day1=5, day2=3, day1=2] gives three
\* entries with states (5, 3, 2) and, from seed 0, sums (5, 8, 10).
C8_AdjacencyGrouping ==
    aggPc = "calculated" =>
        /\ Len(statistic_data) = Cardinality(RunStarts(hist_states))
        /\ \A j \in 1..Len(statistic_data) :
              /\ statistic_data[j].start =
                    [day |-> hist_states[NthRunStart(hist_states, j)].dt.day,
                     hour |-> 0]
              /\ statistic_data[j].state =
                    SumRange(hist_states, NthRunStart(hist_states, j),
                             NthRunEnd(hist_states, j))
        /\ hist_states = ExampleInput =>
              /\ [i \in 1..Len(statistic_data) |-> statistic_data[i].state]
                    = <<5, 3, 2>>
              /\ SeedOf(latest) = 0 => Sums(statistic_data) = <<5, 8, 10>>

C8_Witness ==
    /\ aggPc = "calculated"
    /\ hist_states = ExampleInput
    /\ latest = <<>>
    /\ Len(statistic_data) = 3
    /\ statistic_data[1].start = statistic_data[3].start

\* the case C9 is about: an earlier batch, first seeded with 0, has been
\* imported, and a batch of later days only has just been aggregated from
\* the last cumulative sum
ResumedLaterBatch ==
    /\ aggPc = "calculated"
    /\ SeedOf(first_latest) = 0
    /\ aggregated # <<>>
    /\ hist_states # <<>>
    /\ LaterDays(aggregated, hist_states)

\* C9, in the specification's words: aggregating a batch from seed 0 and then a batch of later
\* days from the last cumulative sum gives, over both results, strictly
\* increasing cumulative sums.  (Stated here for readings that are never
\* negative, the case the statement is most plausible for.)
C9_StrictlyIncreasing ==
    (ResumedLaterBatch /\ NonNegative(aggregated \o hist_states)) =>
        LET sums == Sums(stored \o statistic_data)
        IN \A i \in 2..Len(sums) : sums[i - 1] < sums[i]

\* C9, as the code has it: with no negative reading the cumulative sums over both
\* results never decrease, and they increase strictly when every period
\* total is positive.
C9_NonDecreasing ==
    (ResumedLaterBatch /\ NonNegative(aggregated \o hist_states)) =>
        LET all == stored \o statistic_data
            sums == Sums(all)
        IN /\ \A i \in 2..Len(sums) : sums[i - 1] <= sums[i]
           /\ (\A i \in 1..Len(all) : all[i].state > 0) =>
                 \A i \in 2..Len(sums) : sums[i - 1] < sums[i]

C9_Witness ==
    /\ ResumedLaterBatch
    /\ NonNegative(aggregated \o hist_states)
    /\ stored # <<>>
    /\ statistic_data # <<>>
    /\ statistic_data[1].state = 0
    /\ statistic_data[1].sum = stored[Len(stored)].sum
    /\ stored[Len(stored)].sum > 0

\* C10: for every seed, no seed included, aggregating an empty sequence of
\* historical states returns an empty sequence of statistics.
C10_EmptyInput ==
    (aggPc = "calculated" /\ hist_states = <<>>) => statistic_data = <<>>

C10_Witness ==
    /\ aggPc = "calculated"
    /\ hist_states = <<>>
    /\ latest # <<>> /\ latest[1].sum = 7
    /\ statistic_data = <<>>

\* the batch just aggregated does not start on the calendar day on which the
\* readings before it ended
DayBoundary(A, B) ==
    (A # <<>> /\ B # <<>>) => A[Len(A)].dt.day # B[1].dt.day

\* what has been imported is the aggregate of A = aggregated from the first
\* seed, and B = hist_states has just been aggregated from its last
\* cumulative sum (from the seed itself when there is none)
ResumedFrom ==
    /\ aggPc = "calculated"
    /\ stored = async_calculate_statistic_data(sensor, aggregated, first_latest)
    /\ latest = IF stored = <<>> THEN first_latest
                ELSE << [sum |-> stored[Len(stored)].sum] >>

Total(states) == SumRange(states, 1, Len(states))

\* C23: for sequences A and B of which B does not start on the calendar day
\* A ends on, aggregating A ++ B from a seed gives the aggregate of A from
\* that seed followed by the aggregate of B from the last cumulative sum of
\* A's (from the seed when A gives none); and the last cumulative sum of a
\* result is the seed plus the sum of all the readings aggregated.
C23_Resumable ==
    /\ (ResumedFrom /\ DayBoundary(aggregated, hist_states)) =>
          /\ stored \o statistic_data =
                async_calculate_statistic_data(sensor, aggregated \o hist_states,
                                               first_latest)
          /\ stored \o statistic_data # <<>> =>
                (stored \o statistic_data)[Len(stored) + Len(statistic_data)].sum
                    = SeedOf(first_latest) + Total(aggregated \o hist_states)
    /\ (aggPc = "calculated" /\ statistic_data # <<>>) =>
          statistic_data[Len(statistic_data)].sum
              = SeedOf(latest) + Total(hist_states)

C23_Witness ==
    /\ ResumedFrom
    /\ Len(aggregated) = 2
    /\ Len(hist_states) = 1
    /\ aggregated[1].dt.day # aggregated[2].dt.day
    /\ hist_states[1].dt.day = aggregated[1].dt.day
    /\ SeedOf(first_latest) = 7
    /\ Len(stored) = 2
    /\ Len(statistic_data) = 1
    /\ statistic_data[1].start = stored[1].start
    /\ statistic_data[1].sum = 7 + Total(aggregated \o hist_states)

====
